---- MODULE Spec2Model ----
(***************************************************************************)
(* The connection lifecycle of src/src/components/ChatRoom.jsx (the first  *)
(* component of the file, lines 1-187): the WebSocket handles it creates,  *)
(* the retry timer, the message log and send.                              *)
(*                                                                         *)
(* A socket that has delivered its close event fires nothing more and is   *)
(* referenced by nothing (every onclose clears wsRef.current), so it is    *)
(* dropped from `sockets` and its identifier may name a later socket.  The *)
(* same holds for a timer that has fired or was cleared.                   *)
(***************************************************************************)
EXTENDS Integers, Sequences, FiniteSets, TLC

VARIABLES
    messages,         \* useState([])             line 6
    input,            \* useState("")             line 7, a sequence of characters
    status,           \* useState("connecting")   line 8
    attempt,          \* useState(0)              line 9
    wsRef,            \* wsRef.current            line 10, a socket id or Null
    retryTimeoutRef,  \* retryTimeoutRef.current  line 13, a timer id or Null
    manualCloseRef,   \* manualCloseRef.current   line 14
    sockets,          \* the WebSocket objects that can still fire events: id -> readyState
    timers,           \* the pending setTimeout(connect, delay) calls: id -> delay
    sent,             \* the frames handed to WebSocket.send, in order
    mounted,          \* whether the effect of lines 73-86 is set up
    last              \* the handler that ran last, with what it read

vars == <<messages, input, status, attempt, wsRef, retryTimeoutRef,
          manualCloseRef, sockets, timers, sent, mounted, last>>

Null == 0

\* ---------------------------------------------------------------- bounds
MaxSockets == 3
MaxTimers == 2
MaxAttempt == 3
MaxFail == 21
MaxMsgs == 2
MaxSent == 1

\* ------------------------------------------------------ program constants
BaseMs == 500
MaxBaseDelay == 10000
MaxJitter == 300
MinDelay == 300
FallbackDelay == 1000

CONNECTING == 0
OPEN == 1
CLOSING == 2
CLOSED == 3

\* ---------------------------------------------------------------- helpers
Min(a, b) == IF a < b THEN a ELSE b
Max(a, b) == IF a > b THEN a ELSE b

Least(S) == CHOOSE x \in S : \A y \in S : x <= y

SocketIds == 1..MaxSockets
TimerIds == 1..MaxTimers

\* Math.random() * 300 lies in [0, 300); these are the values drawn from it.
Jitters == {0, 1, 150, MaxJitter - 1}

Without(f, k) == [x \in DOMAIN f \ {k} |-> f[x]]

\* What a handler saw when it ran: its socket h, the attempt counter n, the
\* jitter j it drew, the number p of timers pending and whether h was the
\* current socket.
Event(op, h, n, j) ==
    [op |-> op, h |-> h, n |-> n, j |-> j, p |-> Cardinality(DOMAIN timers),
     cur |-> (h # Null /\ h = wsRef)]

\* Math.min(10000, 500 * Math.pow(2, prev))
BaseDelayNoCap(prev) == BaseMs * 2^prev
BaseDelay(prev) == Min(MaxBaseDelay, BaseMs * 2^prev)

\* Math.max(300, baseDelay + jitter)
Delay(prev, j) == Max(MinDelay, BaseDelay(prev) + j)

\* if (retryTimeoutRef.current) clearTimeout(retryTimeoutRef.current), on the
\* pending timers tm
NoClearRetry(tm) == tm
ClearRetry(tm) ==
    IF retryTimeoutRef # Null /\ retryTimeoutRef \in DOMAIN tm
    THEN Without(tm, retryTimeoutRef)
    ELSE tm

\* retryTimeoutRef.current = setTimeout(connect, delay): the timers after it
SetTimeout(tm, t, delay) == [x \in DOMAIN tm \cup {t} |-> IF x = t THEN delay ELSE tm[x]]

CanSchedule(tm) == TimerIds \ DOMAIN ClearRetry(tm) # {}
FreshTimer(tm) == Least(TimerIds \ DOMAIN ClearRetry(tm))

CanCreate == SocketIds \ DOMAIN sockets # {}
FreshSocket == Least(SocketIds \ DOMAIN sockets)

Live(h) == h \in DOMAIN sockets /\ sockets[h] \in {CONNECTING, OPEN}
LiveSockets == {h \in DOMAIN sockets : Live(h)}

\* ------------------------------------------------------------------- Init
Init ==
    /\ messages = <<>>
    /\ input = <<>>
    /\ status = "connecting"
    /\ attempt = 0
    /\ wsRef = Null
    /\ retryTimeoutRef = Null
    /\ manualCloseRef = FALSE
    /\ sockets = <<>>
    /\ timers = <<>>
    /\ sent = <<>>
    /\ mounted = FALSE
    /\ last = [op |-> "init", h |-> Null, n |-> 0, j |-> 0, p |-> 0, cur |-> FALSE]

\* ---------------------------------------------------------------- connect
ConnectBackoffOnThrow(throws, tm, st) ==
    IF ~throws
    THEN /\ CanCreate
         /\ sockets' = (FreshSocket :> CONNECTING) @@ sockets
         /\ wsRef' = FreshSocket
         /\ timers' = tm
         /\ status' = st
         /\ UNCHANGED retryTimeoutRef
    ELSE /\ CanSchedule(tm)
         /\ status' = "error"
         /\ timers' = SetTimeout(ClearRetry(tm), FreshTimer(tm), Delay(attempt, 0))
         /\ retryTimeoutRef' = FreshTimer(tm)
         /\ UNCHANGED <<sockets, wsRef>>

\* connect(), lines 26-71, run on the pending timers tm with the status st
\* set by its caller; `throws` is whether new WebSocket(wsUrl) throws.
Connect(throws, tm, st) ==
    IF ~throws
    THEN /\ CanCreate
         /\ sockets' = (FreshSocket :> CONNECTING) @@ sockets
         /\ wsRef' = FreshSocket
         /\ timers' = tm
         /\ status' = st
         /\ UNCHANGED retryTimeoutRef
    ELSE /\ CanSchedule(tm)
         /\ status' = "error"
         /\ timers' = SetTimeout(ClearRetry(tm), FreshTimer(tm), FallbackDelay)
         /\ retryTimeoutRef' = FreshTimer(tm)
         /\ UNCHANGED <<sockets, wsRef>>

\* The effect body, lines 73-76.
Start(throws) ==
    /\ ~mounted
    /\ mounted' = TRUE
    /\ manualCloseRef' = FALSE
    /\ Connect(throws, timers, "connecting")
    /\ last' = Event(IF throws THEN "startThrow" ELSE "start", Null, attempt, 0)
    /\ UNCHANGED <<messages, input, attempt, sent>>

\* The effect cleanup, lines 78-84.
StopKeepTimer ==
    /\ mounted
    /\ mounted' = FALSE
    /\ manualCloseRef' = TRUE
    /\ sockets' = IF wsRef # Null /\ sockets[wsRef] = OPEN
                  THEN [sockets EXCEPT ![wsRef] = CLOSING]
                  ELSE sockets
    /\ last' = Event("stop", wsRef, attempt, 0)
    /\ UNCHANGED <<messages, input, status, attempt, wsRef, retryTimeoutRef, timers, sent>>

Stop ==
    /\ mounted
    /\ mounted' = FALSE
    /\ manualCloseRef' = TRUE
    /\ timers' = ClearRetry(timers)
    /\ sockets' = IF wsRef # Null /\ sockets[wsRef] = OPEN
                  THEN [sockets EXCEPT ![wsRef] = CLOSING]
                  ELSE sockets
    /\ last' = Event("stop", wsRef, attempt, 0)
    /\ UNCHANGED <<messages, input, status, attempt, wsRef, retryTimeoutRef, sent>>

TimerFireNoConnect(t, throws) ==
    /\ t \in DOMAIN timers
    /\ timers' = Without(timers, t)
    /\ last' = Event("timerLost", Null, attempt, 0)
    /\ UNCHANGED <<messages, input, status, attempt, wsRef, retryTimeoutRef,
                   manualCloseRef, sockets, sent, mounted>>

\* The timer t fires and runs connect, line 60 or 69.
TimerFire(t, throws) ==
    /\ t \in DOMAIN timers
    /\ Connect(throws, Without(timers, t), status)
    /\ last' = Event(IF throws THEN "timerThrow" ELSE "timer", Null, attempt, 0)
    /\ UNCHANGED <<messages, input, attempt, manualCloseRef, sent, mounted>>

\* ws.onopen of socket h, lines 31-34.
OnOpenNoReset(h) ==
    /\ h \in DOMAIN sockets
    /\ sockets[h] = CONNECTING
    /\ sockets' = [sockets EXCEPT ![h] = OPEN]
    /\ status' = "connected"
    /\ last' = Event("open", h, attempt, 0)
    /\ UNCHANGED <<messages, input, attempt, wsRef, retryTimeoutRef, manualCloseRef,
                   timers, sent, mounted>>

OnOpen(h) ==
    /\ h \in DOMAIN sockets
    /\ sockets[h] = CONNECTING
    /\ sockets' = [sockets EXCEPT ![h] = OPEN]
    /\ status' = "connected"
    /\ attempt' = 0
    /\ last' = Event("open", h, attempt, 0)
    /\ UNCHANGED <<messages, input, wsRef, retryTimeoutRef, manualCloseRef,
                   timers, sent, mounted>>

OnErrorRetry(h) ==
    /\ h \in DOMAIN sockets
    /\ sockets[h] \in {CONNECTING, OPEN, CLOSING}
    /\ CanSchedule(timers)
    /\ sockets' = [sockets EXCEPT ![h] = CLOSED]
    /\ status' = "error"
    /\ timers' = SetTimeout(ClearRetry(timers), FreshTimer(timers), FallbackDelay)
    /\ retryTimeoutRef' = FreshTimer(timers)
    /\ last' = Event("error", h, attempt, 0)
    /\ UNCHANGED <<messages, input, attempt, wsRef, manualCloseRef, sent, mounted>>

\* ws.onerror of socket h, lines 45-47.  The browser reports an error when
\* the connection has failed: readyState is CLOSED and the close event follows.
OnError(h) ==
    /\ h \in DOMAIN sockets
    /\ sockets[h] \in {CONNECTING, OPEN, CLOSING}
    /\ sockets' = [sockets EXCEPT ![h] = CLOSED]
    /\ status' = "error"
    /\ last' = Event("error", h, attempt, 0)
    /\ UNCHANGED <<messages, input, attempt, wsRef, retryTimeoutRef, manualCloseRef,
                   timers, sent, mounted>>

OnCloseNoRetry(h, j) ==
    /\ h \in DOMAIN sockets
    /\ sockets' = Without(sockets, h)
    /\ wsRef' = Null
    /\ IF manualCloseRef
       THEN /\ last' = Event("closeManual", h, attempt, 0)
            /\ UNCHANGED <<status, attempt, timers, retryTimeoutRef>>
       ELSE /\ status' = "disconnected"
            /\ attempt' = attempt + 1
            /\ last' = Event("close", h, attempt, j)
            /\ UNCHANGED <<timers, retryTimeoutRef>>
    /\ UNCHANGED <<messages, input, manualCloseRef, sent, mounted>>

OnCloseCountTwice(h, j) ==
    /\ h \in DOMAIN sockets
    /\ sockets' = Without(sockets, h)
    /\ wsRef' = Null
    /\ IF manualCloseRef
       THEN /\ last' = Event("closeManual", h, attempt, 0)
            /\ UNCHANGED <<status, attempt, timers, retryTimeoutRef>>
       ELSE /\ CanSchedule(timers)
            /\ status' = "disconnected"
            /\ attempt' = attempt + 2
            /\ timers' = SetTimeout(ClearRetry(timers), FreshTimer(timers), Delay(attempt, j))
            /\ retryTimeoutRef' = FreshTimer(timers)
            /\ last' = Event("close", h, attempt, j)
    /\ UNCHANGED <<messages, input, manualCloseRef, sent, mounted>>

\* ws.onclose of socket h, lines 49-63, with the updater of lines 54-62 and
\* the jitter j drawn by Math.random() * 300.
OnClose(h, j) ==
    /\ h \in DOMAIN sockets
    /\ sockets' = Without(sockets, h)
    /\ wsRef' = Null
    /\ IF manualCloseRef
       THEN /\ last' = Event("closeManual", h, attempt, 0)
            /\ UNCHANGED <<status, attempt, timers, retryTimeoutRef>>
       ELSE /\ CanSchedule(timers)
            /\ status' = "disconnected"
            /\ attempt' = attempt + 1
            /\ timers' = SetTimeout(ClearRetry(timers), FreshTimer(timers), Delay(attempt, j))
            /\ retryTimeoutRef' = FreshTimer(timers)
            /\ last' = Event("close", h, attempt, j)
    /\ UNCHANGED <<messages, input, manualCloseRef, sent, mounted>>


\* ------------------------------------------------------------ JavaScript values
Undefined == [kind |-> "undefined"]
JsNull == [kind |-> "null"]
Num(n) == [kind |-> "number", num |-> n]
Str(chars) == [kind |-> "string", chars |-> chars]
Obj(type, text) == [kind |-> "object", type |-> type, text |-> text]

MESSAGE == <<"m", "e", "s", "s", "a", "g", "e">>
SYSTEM == <<"s", "y", "s", "t", "e", "m">>
PING == <<"p", "i", "n", "g">>
HI == <<"h", "i">>

\* A frame on the wire: text that is JSON for `value`, or text that is no JSON.
Wire(value) == [json |-> TRUE, value |-> value]
Garbage == [json |-> FALSE, value |-> Undefined]

\* JSON.parse(evt.data): throws on text that is no JSON.
JSONParse(raw) == [threw |-> ~raw.json, data |-> raw.value]

\* JSON.stringify({ type: "message", text })
JSONStringify(value) == [json |-> TRUE, value |-> value]

\* The truthiness of `data` in `data && ...`.
Truthy(v) ==
    CASE v.kind \in {"undefined", "null"} -> FALSE
      [] v.kind = "number" -> v.num # 0
      [] v.kind = "string" -> v.chars # <<>>
      [] OTHER -> TRUE

\* data.type on a truthy value: undefined unless an object carries it.
TypeOf(v) == IF v.kind = "object" THEN v.type ELSE Undefined

\* The test of line 39.
AcceptsAnyObject(data) == Truthy(data) /\ data.kind = "object"
Accepts(data) ==
    /\ Truthy(data)
    /\ (TypeOf(data) = Str(MESSAGE) \/ TypeOf(data) = Str(SYSTEM))

\* The frames a server can deliver.
Frames ==
    { Garbage,
      Wire(JsNull),
      Wire(Num(5)),
      Wire(Obj(Undefined, Str(HI))),
      Wire(Obj(Str(PING), Str(HI))),
      Wire(Obj(Str(MESSAGE), Str(HI))),
      Wire(Obj(Str(SYSTEM), Str(HI))),
      Wire(Obj(Str(MESSAGE), Undefined)),
      Wire(Obj(Str(SYSTEM), Num(5))) }

\* String.prototype.trim on a sequence of characters.
WhiteSpace == {" ", "\n", "\t"}
RECURSIVE TrimStart(_)
TrimStart(s) ==
    IF s # <<>> /\ Head(s) \in WhiteSpace THEN TrimStart(Tail(s)) ELSE s
RECURSIVE TrimEnd(_)
TrimEnd(s) ==
    IF s # <<>> /\ s[Len(s)] \in WhiteSpace THEN TrimEnd(SubSeq(s, 1, Len(s) - 1)) ELSE s
NoTrim(s) == s
Trim(s) == TrimEnd(TrimStart(s))

\* What the user can have typed into the textarea.
A_B == <<"a", " ", "b">>
Inputs ==
    { <<>>, <<" ", "\n">>, HI, <<"\t">> \o A_B \o <<"\n">> }

\* setMessages((prev) => [...prev, data]), line 40.
PrependMessage(prev, data) == <<data>> \o prev
AppendMessage(prev, data) == Append(prev, data)

\* ws.onmessage of socket h with evt.data = raw, lines 36-43.
OnMessage(h, raw) ==
    /\ h \in DOMAIN sockets
    /\ sockets[h] = OPEN
    /\ LET r == JSONParse(raw) IN
         messages' = IF ~r.threw /\ Accepts(r.data)
                     THEN AppendMessage(messages, r.data)
                     ELSE messages
    /\ last' = Event("message", h, attempt, 0)
    /\ UNCHANGED <<input, status, attempt, wsRef, retryTimeoutRef, manualCloseRef,
                   sockets, timers, sent, mounted>>

\* onChange of the textarea, line 168.
SetInput(v) ==
    /\ input' = v
    /\ last' = Event("input", Null, attempt, 0)
    /\ UNCHANGED <<messages, status, attempt, wsRef, retryTimeoutRef, manualCloseRef,
                   sockets, timers, sent, mounted>>

\* send(), lines 106-112.
CanSend(text) == text # <<>> /\ wsRef # Null /\ sockets[wsRef] = OPEN

Send ==
    LET text == Trim(input) IN
    IF CanSend(text)
    THEN /\ sent' = Append(sent, [h |-> wsRef,
                                  frame |-> JSONStringify(Obj(Str(MESSAGE), Str(text)))])
         /\ input' = <<>>
         /\ last' = Event("send", wsRef, attempt, 0)
         /\ UNCHANGED <<messages, status, attempt, wsRef, retryTimeoutRef, manualCloseRef,
                        sockets, timers, mounted>>
    ELSE /\ last' = Event("sendNoop", wsRef, attempt, 0)
         /\ UNCHANGED <<messages, input, status, attempt, wsRef, retryTimeoutRef,
                        manualCloseRef, sockets, timers, sent, mounted>>

\* ------------------------------------------------------------- lifecycle
\* Start, stop, the transport's open/error/close events and the retry timer.
LifeJitters == {0, MaxJitter - 1}

Next ==
    \/ \E throws \in BOOLEAN : Start(throws)
    \/ Stop
    \/ \E t \in TimerIds, throws \in BOOLEAN : TimerFire(t, throws)
    \/ \E h \in SocketIds : OnOpen(h)
    \/ \E h \in SocketIds : OnError(h)
    \/ \E h \in SocketIds, j \in LifeJitters : attempt < MaxAttempt /\ OnClose(h, j)

Spec == Init /\ [][Next]_vars

\* The same lifecycle with the browser's guarantee that a pending timeout
\* that is not cleared fires.
TimerFires == \E t \in TimerIds, throws \in BOOLEAN : TimerFire(t, throws)

SpecRetry == Init /\ [][Next]_vars /\ WF_vars(TimerFires)

\* ----------------------------------------------------------------- inbox
\* The message log, over a lifecycle of at most ChatSockets sockets at a time
\* and ChatAttempts retries.
ChatSockets == 2
ChatAttempts == 1

NextInbox ==
    \/ Cardinality(DOMAIN sockets) < ChatSockets /\ Start(FALSE)
    \/ Stop
    \/ \E t \in TimerIds : Cardinality(DOMAIN sockets) < ChatSockets /\ TimerFire(t, FALSE)
    \/ \E h \in SocketIds : OnOpen(h)
    \/ \E h \in SocketIds : OnError(h)
    \/ \E h \in SocketIds : attempt < ChatAttempts /\ OnClose(h, 0)
    \/ \E h \in SocketIds, raw \in Frames : Len(messages) < MaxMsgs /\ OnMessage(h, raw)

SpecInbox == Init /\ [][NextInbox]_vars

\* ------------------------------------------------------------------ send
\* The textarea and send, over the same lifecycle.
NextSend ==
    \/ Cardinality(DOMAIN sockets) < ChatSockets /\ Start(FALSE)
    \/ Stop
    \/ \E t \in TimerIds : Cardinality(DOMAIN sockets) < ChatSockets /\ TimerFire(t, FALSE)
    \/ \E h \in SocketIds : OnOpen(h)
    \/ \E h \in SocketIds : OnError(h)
    \/ \E h \in SocketIds : attempt < ChatAttempts /\ OnClose(h, 0)
    \/ \E v \in Inputs : SetInput(v)
    \/ Len(sent) < MaxSent /\ Send

SpecSend == Init /\ [][NextSend]_vars

\* --------------------------------------------------------------- backoff
\* One mount whose connection fails again and again.
NextBackoff ==
    \/ Start(FALSE)
    \/ \E t \in TimerIds : TimerFire(t, FALSE)
    \/ \E h \in SocketIds : OnOpen(h)
    \/ \E h \in SocketIds : OnError(h)
    \/ \E h \in SocketIds, j \in Jitters : attempt < MaxFail /\ OnClose(h, j)

SpecBackoff == Init /\ [][NextBackoff]_vars

\* =================================================================== claims

\* C1: in every reachable state at most one socket is live (connecting or
\* open and not yet closed), also across stop() followed by a new start().
C1_OneLiveSocket == Cardinality(LiveSockets) <= 1

\* C2: an open, message, error or close event fired by a socket that is not
\* the current one, while a newer socket is, leaves status, attempt counter,
\* current-handle reference, retry timer and message sequence unchanged.
C2_StaleEventsIgnored ==
    [][(/\ last'.op \in {"open", "message", "error", "close", "closeManual"}
        /\ wsRef # Null
        /\ last'.h # wsRef)
       => UNCHANGED <<status, attempt, wsRef, retryTimeoutRef, timers, messages>>]_vars

\* C3: from stop() until the next start() neither the published status nor
\* the attempt counter changes, whatever events of the torn-down socket arrive.
C3_SilentAfterStop ==
    [][manualCloseRef /\ manualCloseRef'
       => status' = status /\ attempt' = attempt]_vars

\* C4: while the manual-teardown flag is set no retry timer is pending, none
\* fires and no socket is created, and a close event handled under the flag
\* leaves status, attempt counter and timers as they were.
C4_NoRetryWhileStopped ==
    [][/\ manualCloseRef' => DOMAIN timers' = {}
       /\ manualCloseRef /\ manualCloseRef'
            => /\ DOMAIN sockets' \subseteq DOMAIN sockets
               /\ last'.op \notin {"timer", "timerThrow"}
       /\ manualCloseRef /\ last'.op \in {"close", "closeManual"}
            => /\ status' = status
               /\ attempt' = attempt
               /\ timers' = timers]_vars

\* C4 witness: a close event was handled under the flag after a retry had
\* been scheduled earlier in the session.
C4_Witness ==
    /\ manualCloseRef
    /\ last.op = "closeManual"
    /\ retryTimeoutRef # Null
    /\ DOMAIN timers = {}

\* C5: at most one retry timer is pending, and it is the one held in
\* retryTimeoutRef: scheduling a retry cancels the timer held before.
C5_OneTimer ==
    /\ Cardinality(DOMAIN timers) <= 1
    /\ DOMAIN timers \subseteq {retryTimeoutRef}

\* C5 witness: a close event scheduled its retry while a timer was pending.
C5_Witness ==
    /\ last.op = "close"
    /\ last.p = 1
    /\ Cardinality(DOMAIN timers) = 1

\* C6: an open event sets the attempt counter to 0 whatever it was, and
\* status = connected implies attempt counter = 0.
C6_OpenResetsAttempt ==
    [][/\ last'.op = "open" => attempt' = 0
       /\ status' = "connected" => attempt' = 0]_vars

\* C6 witness: a socket opened when the attempt counter was positive.
C6_Witness ==
    /\ last.op = "open"
    /\ last.n > 0
    /\ status = "connected"
    /\ attempt = 0

\* C7: the delay scheduled by a close event with attempt count n (before the
\* increment) and jitter j is max(300, min(10000, 500 * 2^n) + j); its
\* pre-jitter part is 500, 1000, 2000, 4000 for n = 0..3, non-decreasing in n
\* and 10000 from n = 5 on, and the delay lies in [300, 10300].
C7_BackoffDelay ==
    last.op = "close" =>
        LET n == last.n
            j == last.j
            d == timers[retryTimeoutRef]
            pre == d - j
            cap == IF 500 * 2^n < 10000 THEN 500 * 2^n ELSE 10000
        IN  /\ j \in 0..300
            /\ d = (IF cap + j > 300 THEN cap + j ELSE 300)
            /\ n = 0 => pre = 500
            /\ n = 1 => pre = 1000
            /\ n = 2 => pre = 2000
            /\ n = 3 => pre = 4000
            /\ n >= 5 => pre = 10000
            /\ \A m \in 0..n : BaseDelay(m) <= pre
            /\ d >= 300 /\ d <= 10300

\* C7 witness: the retry scheduled after twenty consecutive failures.
C7_Witness ==
    /\ last.op = "close"
    /\ last.n = 20
    /\ timers[retryTimeoutRef] = 10000 + last.j

\* C8: send makes a transport call only if status is connected and the
\* trimmed text is non-empty; otherwise it changes nothing.
C8_SendOnlyWhenConnected ==
    [][/\ sent' # sent => status = "connected" /\ Trim(input) # <<>>
       /\ last'.op = "sendNoop"
            => UNCHANGED <<input, messages, status, attempt, sent>>]_vars

\* C9: an inbound payload is appended to the message sequence if and only if
\* it deserializes and its type is "message" or "system"; any other payload
\* leaves status, attempt counter, current handle, retry timer and message
\* sequence unchanged.
C9_AdmissionRule ==
    [][\A h \in {last'.h}, raw \in Frames :
         last'.op = "message" /\ OnMessage(h, raw) =>
           /\ UNCHANGED <<status, attempt, wsRef, retryTimeoutRef, timers>>
           /\ IF /\ raw.json
                 /\ raw.value.kind = "object"
                 /\ raw.value.type \in {Str(MESSAGE), Str(SYSTEM)}
              THEN messages' = Append(messages, raw.value)
              ELSE messages' = messages]_vars

\* C9 witness: a message event was handled and the log holds one admitted
\* system frame.
C9_Witness ==
    /\ last.op = "message"
    /\ Len(messages) = 1
    /\ messages[1].type = Str(SYSTEM)

\* C10: every entry of the message sequence has type "message" or "system"
\* and a string body.
C10_WellFormedLog ==
    \A i \in 1..Len(messages) :
        /\ messages[i].kind = "object"
        /\ messages[i].type \in {Str(MESSAGE), Str(SYSTEM)}
        /\ messages[i].text.kind = "string"

\* C11: the message sequence only grows: in every step the previous sequence
\* is a prefix of the next one, a step adds at most one entry, and only a
\* message event adds it, at the end.
C11_AppendOnly ==
    [][/\ Len(messages') >= Len(messages)
       /\ SubSeq(messages', 1, Len(messages)) = messages
       /\ Len(messages') <= Len(messages) + 1
       /\ messages' # messages => last'.op = "message"]_vars

\* C11 witness: two different admitted frames are in the log in the order of
\* their message events, and the session went through a close since.
C11_Witness ==
    /\ Len(messages) = 2
    /\ messages[1].type = Str(SYSTEM)
    /\ messages[2].type = Str(MESSAGE)
    /\ last.op \in {"close", "closeManual"}

\* C12: right after start() status is connecting, the manual-teardown flag is
\* false, the attempt counter is 0, no retry timer is pending and a newly
\* created socket is the current one (stated for a start whose WebSocket
\* constructor returns).
C12_StartResets ==
    [][last'.op = "start"
       => /\ status' = "connecting"
          /\ ~manualCloseRef'
          /\ attempt' = 0
          /\ DOMAIN timers' = {}
          /\ wsRef' \in DOMAIN sockets' \ DOMAIN sockets]_vars

\* C13: a close event of the current socket handled while the flag is false
\* leaves status disconnected, no current socket and exactly one pending retry
\* timer, the one held in retryTimeoutRef.
C13_CloseSchedulesRetry ==
    [][last'.op \in {"close", "closeManual"} /\ last'.cur /\ ~manualCloseRef
       => /\ status' = "disconnected"
          /\ wsRef' = Null
          /\ Cardinality(DOMAIN timers') = 1
          /\ retryTimeoutRef' \in DOMAIN timers']_vars

\* C13 witness: the current socket closed with the flag false, and one retry
\* is pending.
C13_Witness ==
    /\ last.op = "close"
    /\ last.cur
    /\ status = "disconnected"
    /\ wsRef = Null
    /\ Cardinality(DOMAIN timers) = 1
    /\ DOMAIN sockets = {}

\* C14: in every step the attempt counter stays, becomes 0 or grows by one;
\* it grows exactly in the close events handled with the flag false, together
\* with the scheduling of the retry, and it shrinks only by the reset of open.
C14_AttemptSteps ==
    [][/\ attempt' \in {attempt, 0, attempt + 1}
       /\ attempt' = attempt + 1
            => /\ last'.op = "close"
               /\ ~manualCloseRef
               /\ retryTimeoutRef' \in DOMAIN timers'
               /\ timers'[retryTimeoutRef'] = Delay(attempt, last'.j)
       /\ last'.op \in {"close", "closeManual"} /\ ~manualCloseRef
            => attempt' = attempt + 1
       /\ attempt' < attempt => last'.op = "open"]_vars

\* C14 witness: a second consecutive close raised the counter from 1 to 2.
C14_Witness ==
    /\ last.op = "close"
    /\ last.n = 1
    /\ attempt = 2

\* C15: an error event sets status to error and leaves the attempt counter,
\* the current socket, the retry timer, the flag and the messages alone.
C15_ErrorOnlySetsStatus ==
    [][last'.op = "error"
       => /\ status' = "error"
          /\ UNCHANGED <<attempt, wsRef, retryTimeoutRef, timers, manualCloseRef,
                         messages>>]_vars

\* C15 witness: the current socket reported an error; no retry is pending.
C15_Witness ==
    /\ last.op = "error"
    /\ last.cur
    /\ status = "error"
    /\ wsRef = last.h
    /\ DOMAIN timers = {}

\* C16: when new WebSocket throws inside connect, exactly one retry is
\* pending afterwards, with a delay of 1000 ms whatever the attempt counter
\* is, and the attempt counter is unchanged.
C16_FallbackDelay ==
    [][last'.op \in {"startThrow", "timerThrow"}
       => /\ Cardinality(DOMAIN timers') = 1
          /\ retryTimeoutRef' \in DOMAIN timers'
          /\ timers'[retryTimeoutRef'] = 1000
          /\ attempt' = attempt]_vars

\* C16 witness: the constructor threw in a connect run by the retry timer
\* after two failures.
C16_Witness ==
    /\ last.op = "timerThrow"
    /\ last.n >= 2
    /\ attempt = last.n
    /\ timers[retryTimeoutRef] = 1000

\* C17: while the component is mounted there is always a socket that has yet
\* to close or a pending retry timer, and after a close handled with the flag
\* false, or a failed construction in start, connect runs again unless stop()
\* comes first.
C17_RetriesForever ==
    /\ [](mounted => DOMAIN sockets # {} \/ DOMAIN timers # {})
    /\ (~manualCloseRef /\ last.op \in {"close", "startThrow"})
         ~> (manualCloseRef \/ last.op \in {"timer", "timerThrow"})

\* C17 witness: the retry timer ran connect after three consecutive failures.
C17_Witness ==
    /\ last.op = "timer"
    /\ last.n = MaxAttempt
    /\ ~manualCloseRef
    /\ wsRef \in DOMAIN sockets

\* C18: when the retry timer fires and connect creates a socket, the stored
\* retry-timer field holds no handle afterwards.
C18_FiredTimerCleared ==
    [][last'.op = "timer" => retryTimeoutRef' = Null]_vars

\* C19: a successful send hands exactly one frame {type: "message", text} to
\* the current socket, text being the input without its surrounding white
\* space, and leaves messages, status and attempt counter unchanged.
C19_SendOneFrame ==
    [][last'.op = "send"
       => /\ Len(sent') = Len(sent) + 1
          /\ SubSeq(sent', 1, Len(sent)) = sent
          /\ UNCHANGED <<messages, status, attempt>>
          /\ LET f == sent'[Len(sent')]
                 v == f.frame.value
                 txt == v.text.chars
             IN  /\ f.h = wsRef
                 /\ sockets[wsRef] = OPEN
                 /\ f.frame.json
                 /\ v.kind = "object"
                 /\ v.type = Str(MESSAGE)
                 /\ v.text.kind = "string"
                 /\ txt # <<>>
                 /\ Head(txt) \notin WhiteSpace
                 /\ txt[Len(txt)] \notin WhiteSpace
                 /\ \E i \in 1..Len(input) :
                      /\ SubSeq(input, i, i + Len(txt) - 1) = txt
                      /\ \A k \in 1..Len(input) :
                           k < i \/ k >= i + Len(txt) => input[k] \in WhiteSpace]_vars

\* C19 witness: an input with white space around "a b" was sent as "a b", and
\* the message log is still empty.
C19_Witness ==
    /\ last.op = "send"
    /\ Len(sent) = 1
    /\ sent[1].frame.value.text = Str(A_B)
    /\ messages = <<>>

\* C20: while the manager is not stopped, status = connected implies that
\* wsRef.current is set and refers to an open socket.
C20_ConnectedHasOpenSocket ==
    ~manualCloseRef /\ status = "connected"
        => wsRef # Null /\ wsRef \in DOMAIN sockets /\ sockets[wsRef] = OPEN

====
